---- MODULE Spec2Model ----
(***************************************************************************)
(* A model of the trip planner's PDF exporter (src/exportdata.js: the      *)
(* jsPDF exporter, lines 4-340, and the html2pdf.js exporter, lines        *)
(* 361-772) and of its persistence endpoint                                *)
(* (src/netlify/functions/updateData.js and the older copy of the same     *)
(* handler, src/unnamed/part_000).                                         *)
(*                                                                         *)
(* Strings are modelled by what the code does with them:                   *)
(*   - a date string "YYYY-MM-DD" is the number YYYY*10000 + MM*100 + DD   *)
(*     (the zero-padded digits read as one decimal number);                *)
(*   - a template string is the sequence of its pieces, so                 *)
(*     `${name} arrives` is <<name, " arrives">>;                          *)
(*   - a Date object at local midnight is the record [y, m, d].            *)
(* A day card's title (toLocaleDateString) is not modelled.                *)
(*                                                                         *)
(* exportTripToPDF, the wrapper around generatePDF (lines 27-62 and        *)
(* 367-455), is modelled by its steps between awaits: what runs from one   *)
(* timer or script event to the next is one action.                        *)
(***************************************************************************)
EXTENDS Integers, Sequences, FiniteSets, TLC

VARIABLES
    variant,      \* which exporter class runs: "jspdf" or "html2pdf"
    trip,         \* the trip record handed to generatePDF
    pc,           \* position inside generatePDF
    dates,        \* const dates (line 79 / 603)
    dayCards,     \* const dayCards (line 82); the grid's cards (line 605-609)
    i,            \* loop index of the layout loop (line 88)
    currentY,     \* let currentY (line 85)
    currentPage,  \* let currentPage (line 86)
    pdf,          \* the jsPDF document: its pages, each the day-card rectangles drawn on it
    heightBreaks, \* page breaks of line 92 taken with i % 3 # 0 (only the height test fired)
    error,        \* the error generatePDF threw, "" when none
    saved,        \* pdf.save / html2pdf().save was called
    env,          \* the endpoint's deployment: which handler file, process.env.TOKEN set
    github,       \* data.json in the GitHub repository: [sha, content]
    req,          \* the requests to the endpoint, each with the handler's progress on it
    window,       \* the globals window.jsPDF, window.html2canvas, window.html2pdf: defined or not
    overlay,      \* how many elements with id pdfLoadingOverlay the document holds
    late,         \* CDN scripts whose loadScriptFromCDN timed out and that are still loading
    calls         \* the exportTripToPDF calls made, each with its progress

vars == <<variant, trip, pc, dates, dayCards, i, currentY, currentPage, pdf,
          heightBreaks, error, saved, env, github, req, window, overlay, late, calls>>

exportVars == <<variant, trip, pc, dates, dayCards, i, currentY, currentPage, pdf,
                heightBreaks, error, saved>>

handlerVars == <<env, github, req>>

uiVars == <<window, overlay, late, calls>>

----------------------------------------------------------------------------
(* Bounds of the model *)

\* most events of a trip (arrivals + activities + departures) in the event family
MaxEvents == 3

\* most days of a trip in the heavy-day family
MaxHeavyDays == 3

\* most requests the endpoint receives
MaxRequests == 2

\* the trip collections a request may carry are 1..MaxData
MaxData == 2

\* event counts of a day in the heavy-day family: with 13 events the running
\* y after the card passes pageHeight - 100, with 12 it does not
HeavyCounts == {0, 1, 12, 13}

----------------------------------------------------------------------------
(* Program constants *)

margin == 15
pageHeight == 297
heightReserve == 100
maxItemsPerPage == 3
itemBaseHeight == 20
itemHeightPerEvent == 12
noEventsHeight == 10
cardSpacing == 15

----------------------------------------------------------------------------
(* Dates: the parts of the JavaScript Date the exporter uses *)

IsLeap(y) == (y % 4 = 0 /\ y % 100 # 0) \/ y % 400 = 0

DaysInMonth(y, m) ==
    IF m = 2 THEN (IF IsLeap(y) THEN 29 ELSE 28)
    ELSE IF m \in {4, 6, 9, 11} THEN 30 ELSE 31

\* new Date(str + 'T00:00:00'): the local midnight of the calendar day
ParseDate(str) == [y |-> str \div 10000, m |-> (str \div 100) % 100, d |-> str % 100]

\* date.setDate(n) for n up to one past the month's last day
SetDate(date, n) ==
    IF n <= DaysInMonth(date.y, date.m) THEN [date EXCEPT !.d = n]
    ELSE IF date.m = 12 THEN [y |-> date.y + 1, m |-> 1, d |-> n - DaysInMonth(date.y, date.m)]
    ELSE [y |-> date.y, m |-> date.m + 1, d |-> n - DaysInMonth(date.y, date.m)]

RECURSIVE DaysBeforeYear(_)
DaysBeforeYear(y) ==
    IF y <= 2020 THEN 0 ELSE DaysBeforeYear(y - 1) + (IF IsLeap(y - 1) THEN 366 ELSE 365)

RECURSIVE DaysBeforeMonth(_, _)
DaysBeforeMonth(y, m) ==
    IF m <= 1 THEN 0 ELSE DaysBeforeMonth(y, m - 1) + DaysInMonth(y, m - 1)

\* date.valueOf() in days (what <= compares): days since 2020-01-01
ValueOf(date) == DaysBeforeYear(date.y) + DaysBeforeMonth(date.y, date.m) + date.d - 1

\* the mutant of C1: the loop stops before the end date
RECURSIVE DateLoopExclusive(_, _, _)
DateLoopExclusive(currentDate, end, acc) ==
    IF ValueOf(currentDate) < ValueOf(end)
    THEN DateLoopExclusive(SetDate(currentDate, currentDate.d + 1), end, Append(acc, currentDate))
    ELSE acc

\* the while loop of generateDateRange
RECURSIVE DateLoop(_, _, _)
DateLoop(currentDate, end, acc) ==
    IF ValueOf(currentDate) <= ValueOf(end)
    THEN DateLoop(SetDate(currentDate, currentDate.d + 1), end, Append(acc, currentDate))
    ELSE acc

\* the mutant of C2: a do-while loop, which pushes the start date before the test
generateDateRangeDoWhile(startDate, endDate) ==
    <<ParseDate(startDate)>>
    \o DateLoop(SetDate(ParseDate(startDate), ParseDate(startDate).d + 1),
                ParseDate(endDate), <<>>)

generateDateRangeExclusive(startDate, endDate) ==
    DateLoopExclusive(ParseDate(startDate), ParseDate(endDate), <<>>)

generateDateRange(startDate, endDate) ==
    DateLoop(ParseDate(startDate), ParseDate(endDate), <<>>)

----------------------------------------------------------------------------
(* Day cards *)

\* the collections of a trip; one that is undefined is kept as <<>> in its
\* field, with its name in trip.absent
Collections == {"arrivals", "activities", "departures"}

\* the mutant of C3: getMonth() used without the + 1
DateStrZeroBasedMonth(date) == date.y * 10000 + (date.m - 1) * 100 + date.d

\* const dateStr (lines 170-172, 658-660): getFullYear() + '-' + the month
\* (getMonth() is zero-based, so + 1) and the day, each padded to two digits
DateStr(date) == date.y * 10000 + ((date.m - 1) + 1) * 100 + date.d

\* coll.filter(e => e.date === dateStr)
FilterByDate(coll, dateStr) == SelectSeq(coll, LAMBDA e : e.date = dateStr)

\* the display event pushed for an arrival (lines 187-192)
ArrivalEvent(arrival) ==
    [type |-> "arrival", time |-> <<arrival.time>>,
     description |-> <<arrival.name, " arrives">>]

\* the mutant of C15: the range is built whether or not there is an endTime
ActivityEventAlwaysRange(activity) ==
    [type |-> "activity",
     time |-> <<activity.startTime, " - ", activity.endTime>>,
     description |-> <<activity.name>>]

\* the display event pushed for an activity (lines 199-207); an absent
\* endTime is "", falsy like undefined
ActivityEvent(activity) ==
    [type |-> "activity",
     time |-> IF activity.endTime # "" THEN <<activity.startTime, " - ", activity.endTime>>
              ELSE <<activity.startTime>>,
     description |-> <<activity.name>>]

\* the display event pushed for a departure (lines 214-219)
DepartureEvent(departure) ==
    [type |-> "departure", time |-> <<departure.time>>,
     description |-> <<departure.name, " departs">>]

MapArrivals(s) == [k \in 1..Len(s) |-> ArrivalEvent(s[k])]
MapActivities(s) == [k \in 1..Len(s) |-> ActivityEvent(s[k])]
MapDepartures(s) == [k \in 1..Len(s) |-> DepartureEvent(s[k])]

\* the mutant of C4: the departures are pushed before the activities
CardEventsDeparturesFirst(dateStr, t) ==
    MapArrivals(FilterByDate(t.arrivals, dateStr))
    \o MapDepartures(FilterByDate(t.departures, dateStr))
    \o MapActivities(FilterByDate(t.activities, dateStr))

\* the events pushed by the three filter/forEach passes, in the code's order
CardEvents(dateStr, t) ==
    MapArrivals(FilterByDate(t.arrivals, dateStr))
    \o MapActivities(FilterByDate(t.activities, dateStr))
    \o MapDepartures(FilterByDate(t.departures, dateStr))

\* createDayCardData of the html2pdf exporter (lines 657-718): each pass is
\* guarded by if (trip.<collection>), so it never throws
createDayCardDataGuarded(date, t) ==
    [threw |-> FALSE, date |-> date, dateStr |-> DateStr(date),
     events |-> CardEvents(DateStr(date), t)]

\* createDayCardData of the jsPDF exporter (lines 169-223): trip.arrivals.filter
\* on an undefined collection throws a TypeError and no card is returned
createDayCardData(date, t) ==
    IF t.absent # {}
    THEN [threw |-> TRUE, date |-> date, dateStr |-> DateStr(date), events |-> <<>>]
    ELSE [threw |-> FALSE, date |-> date, dateStr |-> DateStr(date),
          events |-> CardEvents(DateStr(date), t)]

\* dates.map(date => this.createDayCardData(date, trip)) (line 82)
MapDayCards(ds, t) == [k \in 1..Len(ds) |-> createDayCardData(ds[k], t)]

\* dates.forEach(date => ... createDayCardData(date, trip) ...) (lines 605-609)
MapDayCardsGuarded(ds, t) == [k \in 1..Len(ds) |-> createDayCardDataGuarded(ds[k], t)]

----------------------------------------------------------------------------
(* Layout of the jsPDF exporter *)

\* the mutant of C9: the height without the term of the "No events" line
cardHeightNoPlaceholder(dayCard) ==
    itemBaseHeight + Len(dayCard.events) * itemHeightPerEvent

\* const cardHeight (line 227)
cardHeight(dayCard) ==
    itemBaseHeight + Len(dayCard.events) * itemHeightPerEvent
    + (IF Len(dayCard.events) = 0 THEN noEventsHeight ELSE 0)

\* the threshold of the test of line 92
pageHeightBudget == pageHeight - heightReserve

\* the mutant of C7: the count test is left out of line 92
NeedNewPageHeightOnly(idx, y) ==
    idx > 0 /\ y > pageHeight - heightReserve

\* the test of line 92
NeedNewPage(idx, y) ==
    idx > 0 /\ (idx % maxItemsPerPage = 0 \/ y > pageHeight - heightReserve)

\* the rectangle addDayCardToPDF draws on the current (last) page (line 233)
CardItem(dayCard, y) ==
    [dateStr |-> dayCard.dateStr, events |-> dayCard.events, y |-> y, h |-> cardHeight(dayCard)]

\* the mutant of C8: a card that runs past the page's end is continued on a new page
addDayCardToPDFSplit(doc, dayCard, y) ==
    IF y + cardHeight(dayCard) > pageHeight
    THEN Append([doc EXCEPT ![Len(doc)] = Append(@, CardItem(dayCard, y))],
                <<CardItem(dayCard, margin)>>)
    ELSE [doc EXCEPT ![Len(doc)] = Append(@, CardItem(dayCard, y))]

\* addDayCardToPDF (lines 226-300): the card is drawn at y on the current page
addDayCardToPDF(doc, dayCard, y) ==
    [doc EXCEPT ![Len(doc)] = Append(@, CardItem(dayCard, y))]
\* return y + cardHeight (line 299)
CardBottom(dayCard, y) == y + cardHeight(dayCard)

----------------------------------------------------------------------------
(* The trips the exporter is run on *)

\* date windows across a year end, a leap February, a common February and a
\* 30-day month
Windows ==
    { {20231230, 20231231, 20240101, 20240102},
      {20240227, 20240228, 20240229, 20240301},
      {20230227, 20230228, 20230301, 20230302},
      {20240429, 20240430, 20240501} }

\* the dates of the events of the event family: the day before the trip, its
\* first day and its last day
EventDates == {20240713, 20240714, 20240716}

ArrivalInputs ==
    {[date |-> d, time |-> t, name |-> "Ann"] : d \in EventDates, t \in {"09:00", "18:30"}}

ActivityInputs ==
    {[date |-> d, startTime |-> se[1], endTime |-> se[2], name |-> "Hike"] :
        d \in EventDates, se \in {<<"10:00", "">>, <<"08:00", "11:00">>}}

DepartureInputs ==
    {[date |-> d, time |-> "07:15", name |-> "Bob"] : d \in EventDates}

\* n copies of e
Copies(e, n) == [k \in 1..n |-> e]

\* the arrivals of a heavy trip: counts[k] arrivals on its k-th day
RECURSIVE HeavyArrivals(_, _)
HeavyArrivals(counts, k) ==
    IF k > Len(counts) THEN <<>>
    ELSE Copies([date |-> 20240714 + (k - 1), time |-> "09:00", name |-> "Ann"], counts[k])
         \o HeavyArrivals(counts, k + 1)

\* the collections that may be absent: a trip stores an absent collection as <<>>
MayBeAbsent(a, b, c) ==
    (IF a = <<>> THEN {"arrivals"} ELSE {})
    \cup (IF b = <<>> THEN {"activities"} ELSE {})
    \cup (IF c = <<>> THEN {"departures"} ELSE {})

Trip(s, e, a, b, c, absent) ==
    [name |-> "Trip", startDate |-> s, endDate |-> e,
     arrivals |-> a, activities |-> b, departures |-> c, absent |-> absent]

NoTrip == Trip(20240714, 20240714, <<>>, <<>>, <<>>, {})

----------------------------------------------------------------------------
(* Initial states *)

\* the endpoint has received no request
HandlerIdle ==
    /\ env = [file |-> "updateData.js", token |-> TRUE]
    /\ github = [sha |-> 1, content |-> 0]
    /\ req = <<>>

\* exportTripToPDF has not been called
UiIdle ==
    /\ window = [jsPDF |-> TRUE, html2canvas |-> TRUE, html2pdf |-> TRUE]
    /\ overlay = 0
    /\ late = 0
    /\ calls = <<>>

ExportStart ==
    /\ variant \in {"jspdf", "html2pdf"}
    /\ pc = "start"
    /\ dates = <<>>
    /\ dayCards = <<>>
    /\ i = 0
    /\ currentY = 0
    /\ currentPage = 0
    /\ pdf = <<>>
    /\ heightBreaks = 0
    /\ error = ""
    /\ saved = FALSE

\* trips without events over the date windows, end before start included
InitDates ==
    \E w \in Windows : \E s \in w, e \in w : \E absent \in SUBSET Collections :
        trip = Trip(s, e, <<>>, <<>>, <<>>, absent)

\* three-day trips with up to MaxEvents events
InitEvents ==
    \E na \in 0..MaxEvents, nb \in 0..MaxEvents, nc \in 0..MaxEvents :
        /\ na + nb + nc <= MaxEvents
        /\ \E a \in [1..na -> ArrivalInputs], b \in [1..nb -> ActivityInputs],
              c \in [1..nc -> DepartureInputs] :
             \E absent \in SUBSET MayBeAbsent(a, b, c) :
                trip = Trip(20240714, 20240716, a, b, c, absent)

\* trips of up to MaxHeavyDays days with many events on a day
InitHeavy ==
    \E n \in 1..MaxHeavyDays : \E counts \in [1..n -> HeavyCounts] :
        trip = Trip(20240714, 20240714 + (n - 1), HeavyArrivals(counts, 1), <<>>, <<>>, {})

Init ==
    /\ InitDates \/ InitEvents \/ InitHeavy
    /\ ExportStart
    /\ HandlerIdle
    /\ UiIdle

----------------------------------------------------------------------------
(* generatePDF of the jsPDF exporter (lines 65-106) *)

\* lines 66-76 and addTitlePage (lines 109-151): trip.arrivals.length on an
\* undefined collection throws; otherwise the title page is written and
\* pdf.addPage() opens the page of the first day cards
AddTitlePage ==
    /\ variant = "jspdf"
    /\ pc = "start"
    /\ IF trip.absent # {}
       THEN /\ pc' = "threw"
            /\ error' = "TypeError"
            /\ pdf' = <<<<>>>>
       ELSE /\ pc' = "dates"
            /\ error' = error
            /\ pdf' = << <<>>, <<>> >>
    /\ UNCHANGED <<variant, trip, dates, dayCards, i, currentY, currentPage,
                   heightBreaks, saved, handlerVars, uiVars>>

\* line 79
GenerateDates ==
    /\ variant = "jspdf"
    /\ pc = "dates"
    /\ dates' = generateDateRange(trip.startDate, trip.endDate)
    /\ pc' = "cards"
    /\ UNCHANGED <<variant, trip, dayCards, i, currentY, currentPage, pdf,
                   heightBreaks, error, saved, handlerVars, uiVars>>

\* lines 82-86
CreateDayCards ==
    /\ variant = "jspdf"
    /\ pc = "cards"
    /\ LET cards == MapDayCards(dates, trip) IN
       IF \E k \in 1..Len(cards) : cards[k].threw
       THEN /\ pc' = "threw"
            /\ error' = "TypeError"
            /\ UNCHANGED <<dayCards, i, currentY, currentPage>>
       ELSE /\ dayCards' = cards
            /\ currentY' = margin
            /\ currentPage' = 1
            /\ i' = 0
            /\ pc' = "layout"
            /\ error' = error
    /\ UNCHANGED <<variant, trip, dates, pdf, heightBreaks, saved, handlerVars, uiVars>>

\* one iteration of the loop of lines 88-101
LayoutStep ==
    /\ variant = "jspdf"
    /\ pc = "layout"
    /\ i < Len(dayCards)
    /\ LET dayCard == dayCards[i + 1]
           brk == NeedNewPage(i, currentY)
           y == IF brk THEN margin ELSE currentY
           doc == IF brk THEN Append(pdf, <<>>) ELSE pdf
       IN /\ pdf' = addDayCardToPDF(doc, dayCard, y)
          /\ currentY' = CardBottom(dayCard, y) + cardSpacing
          /\ currentPage' = IF brk THEN currentPage + 1 ELSE currentPage
          /\ heightBreaks' = IF brk /\ i % maxItemsPerPage # 0
                             THEN heightBreaks + 1 ELSE heightBreaks
    /\ i' = i + 1
    /\ UNCHANGED <<variant, trip, pc, dates, dayCards, error, saved, handlerVars, uiVars>>

\* lines 103-105
SavePDF ==
    /\ variant = "jspdf"
    /\ pc = "layout"
    /\ i = Len(dayCards)
    /\ saved' = TRUE
    /\ pc' = "done"
    /\ UNCHANGED <<variant, trip, dates, dayCards, i, currentY, currentPage, pdf,
                   heightBreaks, error, handlerVars, uiVars>>

----------------------------------------------------------------------------
(* generatePDF of the html2pdf exporter (lines 456-470) *)

\* lines 458-461 and populateContainerWithTripContent (lines 473-613): one
\* day card element per date of the range is appended to the grid
Populate ==
    /\ variant = "html2pdf"
    /\ pc = "start"
    /\ dates' = generateDateRange(trip.startDate, trip.endDate)
    /\ dayCards' = MapDayCardsGuarded(dates', trip)
    /\ pc' = "render"
    /\ UNCHANGED <<variant, trip, i, currentY, currentPage, pdf, heightBreaks,
                   error, saved, handlerVars, uiVars>>

\* lines 462-469
Html2PdfSave ==
    /\ variant = "html2pdf"
    /\ pc = "render"
    /\ saved' = TRUE
    /\ pc' = "done"
    /\ UNCHANGED <<variant, trip, dates, dayCards, i, currentY, currentPage, pdf,
                   heightBreaks, error, handlerVars, uiVars>>

Next ==
    \/ AddTitlePage
    \/ GenerateDates
    \/ CreateDayCards
    \/ LayoutStep
    \/ SavePDF
    \/ Populate
    \/ Html2PdfSave

Spec == Init /\ [][Next]_vars

----------------------------------------------------------------------------
(* The persistence endpoint: exports.handler of                             *)
(* src/netlify/functions/updateData.js and of src/unnamed/part_000          *)

HandlerFiles == {"updateData.js", "part_000"}

Methods == {"OPTIONS", "POST", "GET"}

\* event.body: missing (undefined or ""), text that is not JSON, the JSON
\* text null, a JSON object without data, one whose data is falsy (null, 0,
\* "", false), one with a trip collection as data
BodyKinds == {"missing", "invalid", "null", "nodata", "falsy", "data"}

Bodies ==
    {[kind |-> k, data |-> 0] : k \in BodyKinds \ {"data"}}
    \cup {[kind |-> "data", data |-> d] : d \in 1..MaxData}

\* JSON.parse(event.body) throws a SyntaxError
ParseThrows(body) == body.kind = "invalid"

\* reading .data of the parsed value throws a TypeError (the value is null)
DataAccessThrows(body) == body.kind = "null"

\* the data the handler gets from a body it could read: 0 for undefined or falsy
DataOf(body) == IF body.kind = "data" THEN body.data ELSE 0

\* a response: statusCode, and the CORS headers every return carries
Response(code) == [statusCode |-> code, cors |-> TRUE]

NoResponse == [statusCode |-> 0, cors |-> FALSE]

\* the status the handler answers with when the read or the write fails:
\* updateData.js catches each call and returns 502 (lines 89-99, 114-124),
\* part_000 lets the error reach its outer catch, which returns 500 (lines 76-86)
UpstreamFailure(file) == IF file = "updateData.js" THEN 502 ELSE 500

\* the mutant of C14: the credential is tested before the method
FirstResponseTokenFirst(file, token, method, body) ==
    IF file = "updateData.js" /\ ~token THEN 500
    ELSE IF method = "OPTIONS" THEN 204
    ELSE IF method # "POST" THEN 405
    ELSE IF ParseThrows(body) \/ DataAccessThrows(body)
         THEN (IF file = "updateData.js" THEN 400 ELSE 500)
    ELSE IF DataOf(body) = 0 THEN 400
    ELSE 0

\* the handler from its entry to its first return or its first await
\* (updateData.js lines 3-86, part_000 lines 3-54): the response, or 0 when
\* it goes on to call getContent
FirstResponse(file, token, method, body) ==
    IF method = "OPTIONS" THEN 204
    ELSE IF method # "POST" THEN 405
    ELSE IF file = "updateData.js" /\ ~token THEN 500
    ELSE IF ParseThrows(body) \/ DataAccessThrows(body)
         THEN (IF file = "updateData.js" THEN 400 ELSE 500)
    ELSE IF DataOf(body) = 0 THEN 400
    ELSE 0

\* a request and the handler's progress on it: sha is currentFile.sha,
\* writeSha the sha the write call was given, reads and writes count the calls
\* made, readResult and writeResult are how each call ended
NewRequest(method, body) ==
    [method |-> method, body |-> body, pc |-> "received", response |-> NoResponse,
     sha |-> 0, writeSha |-> 0, reads |-> 0, writes |-> 0,
     readResult |-> "none", writeResult |-> "none"]

\* a request arrives at the endpoint
Arrive ==
    /\ Len(req) < MaxRequests
    /\ \E method \in Methods, body \in Bodies :
          req' = Append(req, NewRequest(method, body))
    /\ UNCHANGED <<env, github, exportVars, uiVars>>

\* the handler runs on request r up to its first return or to the call of getContent
HandleRequest(r) ==
    /\ req[r].pc = "received"
    /\ LET code == FirstResponse(env.file, env.token, req[r].method, req[r].body) IN
       IF code # 0
       THEN req' = [req EXCEPT ![r].pc = "responded", ![r].response = Response(code)]
       ELSE req' = [req EXCEPT ![r].pc = "reading", ![r].reads = @ + 1]
    /\ UNCHANGED <<env, github, exportVars, uiVars>>

\* getContent returns (updateData.js lines 82-100, part_000 lines 50-54): on
\* success the handler keeps the sha and calls createOrUpdateFileContents with it
GetContentReturns(r) ==
    /\ req[r].pc = "reading"
    /\ \E ok \in BOOLEAN :
          IF ok
          THEN req' = [req EXCEPT ![r].pc = "writing", ![r].sha = github.sha,
                                  ![r].readResult = "ok",
                                  ![r].writeSha = github.sha, ![r].writes = @ + 1]
          ELSE req' = [req EXCEPT ![r].pc = "responded", ![r].readResult = "failed",
                                  ![r].response = Response(UpstreamFailure(env.file))]
    /\ UNCHANGED <<env, github, exportVars, uiVars>>

\* the mutant of C12: a rejected write is answered by reading the file again
UpdateReturnsRetry(r) ==
    /\ req[r].pc = "writing"
    /\ \E ok \in BOOLEAN :
          IF ok /\ env.token /\ req[r].writeSha = github.sha
          THEN /\ github' = [sha |-> github.sha + 1, content |-> req[r].body.data]
               /\ req' = [req EXCEPT ![r].pc = "responded", ![r].writeResult = "ok",
                                     ![r].response = Response(200)]
          ELSE /\ github' = github
               /\ req' = [req EXCEPT ![r].pc = "reading", ![r].writeResult = "failed",
                                     ![r].reads = @ + 1]
    /\ UNCHANGED <<env, exportVars, uiVars>>

\* createOrUpdateFileContents returns (updateData.js lines 104-135, part_000
\* lines 58-75): GitHub accepts the write only with a credential and the
\* current sha, and may fail otherwise too
UpdateReturns(r) ==
    /\ req[r].pc = "writing"
    /\ \E ok \in BOOLEAN :
          IF ok /\ env.token /\ req[r].writeSha = github.sha
          THEN /\ github' = [sha |-> github.sha + 1, content |-> req[r].body.data]
               /\ req' = [req EXCEPT ![r].pc = "responded", ![r].writeResult = "ok",
                                     ![r].response = Response(200)]
          ELSE /\ github' = github
               /\ req' = [req EXCEPT ![r].pc = "responded", ![r].writeResult = "failed",
                                     ![r].response = Response(UpstreamFailure(env.file))]
    /\ UNCHANGED <<env, exportVars, uiVars>>

\* no export is running
ExportIdle ==
    /\ variant = "jspdf"
    /\ trip = NoTrip
    /\ pc = "idle"
    /\ dates = <<>>
    /\ dayCards = <<>>
    /\ i = 0
    /\ currentY = 0
    /\ currentPage = 0
    /\ pdf = <<>>
    /\ heightBreaks = 0
    /\ error = ""
    /\ saved = FALSE

InitHandler ==
    /\ env \in [file : HandlerFiles, token : BOOLEAN]
    /\ github = [sha |-> 1, content |-> 0]
    /\ req = <<>>
    /\ ExportIdle
    /\ UiIdle

NextHandler ==
    \/ Arrive
    \/ \E r \in 1..Len(req) : HandleRequest(r)
    \/ \E r \in 1..Len(req) : GetContentReturns(r)
    \/ \E r \in 1..Len(req) : UpdateReturns(r)

SpecHandler == InitHandler /\ [][NextHandler]_vars

----------------------------------------------------------------------------
(* exportTripToPDF and the library loading it waits for                     *)
(* (jsPDF exporter: lines 27-62; html2pdf exporter: lines 367-455)          *)

\* most exportTripToPDF calls
MaxCalls == 2

\* const maxAttempts = 100 (line 52)
maxAttempts == 100

\* const cdnSources (lines 407-411): cdnjs, unpkg, jsdelivr
cdnSources == <<"cdnjs", "unpkg", "jsdelivr">>

\* error.message of the errors thrown inside the try block
LibrariesFailed == "Required libraries failed to load. Please check your internet connection and try again."
CdnFailed == "Failed to load html2pdf library from all CDN sources. Please check your internet connection and try again."
GenerateFailed == "generatePDF threw"

\* the alert of a call without a trip (line 29 / 369)
NoTripAlert == <<"No trip data available for export">>

\* the alert of the catch block (line 45 / line 389)
AlertText(v, err) ==
    IF v = "jspdf" THEN <<"Error generating PDF. Please try again.">>
    ELSE <<"Error generating PDF: ", err, "\n\nPlease refresh the page and try again.">>

\* showLoadingState (lines 303-339 / 721-771) on the number of overlay elements:
\* one is created only when getElementById finds none, the one found is removed
showLoadingState(n, show) ==
    IF show /\ n = 0 THEN 1
    ELSE IF ~show /\ n > 0 THEN n - 1
    ELSE n

\* !window.jsPDF || !window.html2canvas is false (lines 54, 59)
LibrariesReady(w) == w.jsPDF /\ w.html2canvas

\* a call of exportTripToPDF(t) at its first statement; tried, availAtStart and
\* availAtStop record what the loader saw: the sources it attempted, whether the
\* library was defined when each attempt began and when the loader finished
NewCall(t) ==
    [trip |-> t, pc |-> "called", attempts |-> 0, source |-> 0, tried |-> <<>>,
     availAtStart |-> <<>>, loadResult |-> "none", availAtStop |-> FALSE,
     error |-> "", alerts |-> <<>>, escaped |-> FALSE]

\* the mutant of C16: a catch block that logs the error and shows nothing
CatchBlockSilent(v, call, err) ==
    [call EXCEPT !.error = err]

\* the catch block (lines 43-45 / 387-389): the error is caught and an alert shown
CatchBlock(v, call, err) ==
    [call EXCEPT !.error = err, !.alerts = Append(@, AlertText(v, err))]

\* an error leaves the try block: catch, then finally, then the call returns
Caught(v, call, err) ==
    [CatchBlock(v, call, err) EXCEPT !.pc = "returned"]

\* await this.generatePDF(trip) is reached (line 41 / 385)
Generating(call) ==
    [call EXCEPT !.pc = "generating"]

\* the finally block (lines 46-48 / 390-392) runs when the call returns
Finally(n, call) ==
    IF call.pc = "returned" THEN showLoadingState(n, FALSE) ELSE n

\* the mutant of C19: the loop test lets one more wait through
waitForLibrariesOneMore(v, call, w) ==
    IF ~LibrariesReady(w) /\ call.attempts <= maxAttempts
    THEN [call EXCEPT !.pc = "waiting"]
    ELSE LET stopped == [call EXCEPT !.availAtStop = LibrariesReady(w)] IN
         IF ~LibrariesReady(w)
         THEN Caught(v, [stopped EXCEPT !.loadResult = "threw"], LibrariesFailed)
         ELSE Generating([stopped EXCEPT !.loadResult = "ok"])

\* waitForLibraries from its loop test on (lines 54-61): another 100 ms wait,
\* or the loop is left and the libraries are tested once more
waitForLibraries(v, call, w) ==
    IF ~LibrariesReady(w) /\ call.attempts < maxAttempts
    THEN [call EXCEPT !.pc = "waiting"]
    ELSE LET stopped == [call EXCEPT !.availAtStop = LibrariesReady(w)] IN
         IF ~LibrariesReady(w)
         THEN Caught(v, [stopped EXCEPT !.loadResult = "threw"], LibrariesFailed)
         ELSE Generating([stopped EXCEPT !.loadResult = "ok"])

\* the for loop of ensureHtml2PdfLoaded at index k - 1 (lines 413-431):
\* loadScriptFromCDN(cdnSources[k - 1]) is called, or the loop is over and the
\* error is thrown
TrySource(v, call, k, w) ==
    IF k <= Len(cdnSources)
    THEN [call EXCEPT !.pc = "loading", !.source = k, !.tried = Append(@, k),
                      !.availAtStart = Append(@, w.html2pdf)]
    ELSE Caught(v, [call EXCEPT !.loadResult = "threw", !.availAtStop = w.html2pdf],
                CdnFailed)

\* ensureHtml2PdfLoaded has found window.html2pdf defined (lines 399-402, 421-424)
Loaded(call) ==
    Generating([call EXCEPT !.loadResult = "ok", !.availAtStop = TRUE])

\* ensureHtml2PdfLoaded from its first statement (lines 397-416)
ensureHtml2PdfLoaded(v, call, w) ==
    IF w.html2pdf THEN Loaded(call) ELSE TrySource(v, call, 1, w)

\* exportTripToPDF(t) is called and runs to its first await: without a trip
\* the alert and the return (lines 28-31); else showLoadingState(true) and the
\* loader
StartCall(t) ==
    /\ Len(calls) < MaxCalls
    /\ LET call == NewCall(t)
           started == IF variant = "jspdf" THEN waitForLibraries(variant, call, window)
                      ELSE ensureHtml2PdfLoaded(variant, call, window)
       IN IF t = "null"
          THEN /\ calls' = Append(calls, [call EXCEPT !.alerts = <<NoTripAlert>>,
                                                      !.pc = "returned"])
               /\ overlay' = overlay
          ELSE /\ calls' = Append(calls, started)
               /\ overlay' = Finally(showLoadingState(overlay, TRUE), started)
    /\ UNCHANGED <<window, late, exportVars, handlerVars>>

\* the Export button is used when no export is running
ExportCall ==
    /\ \A c \in 1..Len(calls) : calls[c].pc = "returned"
    /\ \E t \in {"null", "trip"} : StartCall(t)

\* the Export button is used, whether or not an export is running
ExportCallOverlapping ==
    \E t \in {"null", "trip"} : StartCall(t)

\* the 100 ms timer of line 55 fires: attempts++, then the loop test
Poll(c) ==
    /\ c \in 1..Len(calls)
    /\ calls[c].pc = "waiting"
    /\ LET next == waitForLibraries(variant, [calls[c] EXCEPT !.attempts = @ + 1], window) IN
         /\ calls' = [calls EXCEPT ![c] = next]
         /\ overlay' = Finally(overlay, next)
    /\ UNCHANGED <<window, late, exportVars, handlerVars>>

\* a script appended by loadLibraries (lines 10-24) has loaded and defines its global
LibraryLoads(lib) ==
    /\ variant = "jspdf"
    /\ ~window[lib]
    /\ window' = [window EXCEPT ![lib] = TRUE]
    /\ UNCHANGED <<overlay, late, calls, exportVars, handlerVars>>

\* script.onload of loadScriptFromCDN (lines 445-448): the script has run, and
\* defined window.html2pdf or not; the 300 ms wait of line 419 begins
ScriptLoaded(c, defines) ==
    /\ c \in 1..Len(calls)
    /\ calls[c].pc = "loading"
    /\ window' = [window EXCEPT !.html2pdf = @ \/ defines]
    /\ calls' = [calls EXCEPT ![c].pc = "settling"]
    /\ UNCHANGED <<overlay, late, exportVars, handlerVars>>

\* script.onerror (lines 450-453) or the 10 s timeout (lines 441-443) rejects;
\* the catch of line 425 logs and the loop goes on. A script that timed out
\* stays in the document and is still loading.
ScriptFailed(c, timedOut) ==
    /\ c \in 1..Len(calls)
    /\ calls[c].pc = "loading"
    /\ late' = IF timedOut THEN late + 1 ELSE late
    /\ LET next == TrySource(variant, calls[c], calls[c].source + 1, window) IN
         /\ calls' = [calls EXCEPT ![c] = next]
         /\ overlay' = Finally(overlay, next)
    /\ UNCHANGED <<window, exportVars, handlerVars>>

\* the 300 ms timer fires: the test of line 421, then return or the next source
SettleDone(c) ==
    /\ c \in 1..Len(calls)
    /\ calls[c].pc = "settling"
    /\ LET next == IF window.html2pdf THEN Loaded(calls[c])
                   ELSE TrySource(variant, calls[c], calls[c].source + 1, window) IN
         /\ calls' = [calls EXCEPT ![c] = next]
         /\ overlay' = Finally(overlay, next)
    /\ UNCHANGED <<window, late, exportVars, handlerVars>>

\* a script whose load had timed out arrives after all
LateLoad(defines) ==
    /\ late > 0
    /\ late' = late - 1
    /\ window' = [window EXCEPT !.html2pdf = @ \/ defines]
    /\ UNCHANGED <<overlay, calls, exportVars, handlerVars>>

\* generatePDF(trip) settles (line 41 / 385): it returned, or it threw, and the
\* call goes through catch and finally
GenerateSettles(c, threw) ==
    /\ c \in 1..Len(calls)
    /\ calls[c].pc = "generating"
    /\ LET next == IF threw THEN Caught(variant, calls[c], GenerateFailed)
                   ELSE [calls[c] EXCEPT !.pc = "returned"] IN
         /\ calls' = [calls EXCEPT ![c] = next]
         /\ overlay' = Finally(overlay, next)
    /\ UNCHANGED <<window, late, exportVars, handlerVars>>

\* the page is open and exportTripToPDF has not been called: the jsPDF page's
\* libraries may not have loaded yet, the html2pdf page may lack its library
InitExport ==
    /\ variant \in {"jspdf", "html2pdf"}
    /\ trip = NoTrip
    /\ pc = "idle"
    /\ dates = <<>>
    /\ dayCards = <<>>
    /\ i = 0
    /\ currentY = 0
    /\ currentPage = 0
    /\ pdf = <<>>
    /\ heightBreaks = 0
    /\ error = ""
    /\ saved = FALSE
    /\ HandlerIdle
    /\ window \in [jsPDF : BOOLEAN, html2canvas : BOOLEAN, html2pdf : BOOLEAN]
    /\ variant = "jspdf" => ~window.html2pdf
    /\ variant = "html2pdf" => ~window.jsPDF /\ ~window.html2canvas
    /\ overlay = 0
    /\ late = 0
    /\ calls = <<>>

\* what happens besides the calls themselves
ExportSteps ==
    \/ \E c \in 1..MaxCalls : Poll(c)
    \/ \E lib \in {"jsPDF", "html2canvas"} : LibraryLoads(lib)
    \/ \E c \in 1..MaxCalls, defines \in BOOLEAN : ScriptLoaded(c, defines)
    \/ \E c \in 1..MaxCalls, timedOut \in BOOLEAN : ScriptFailed(c, timedOut)
    \/ \E c \in 1..MaxCalls : SettleDone(c)
    \/ \E defines \in BOOLEAN : LateLoad(defines)
    \/ \E c \in 1..MaxCalls, threw \in BOOLEAN : GenerateSettles(c, threw)

NextExport ==
    \/ ExportCall
    \/ ExportSteps

\* one export at a time
SpecExport == InitExport /\ [][NextExport]_vars

\* timers fire: a pending 100 ms wait of waitForLibraries ends
SpecExportFair == SpecExport /\ \A c \in 1..MaxCalls : WF_vars(Poll(c))

NextOverlap ==
    \/ ExportCallOverlapping
    \/ ExportSteps

\* exports that may overlap
SpecOverlap == InitExport /\ [][NextOverlap]_vars

----------------------------------------------------------------------------
(* Properties of the date range *)

\* generateDateRange has returned
DatesComputed == pc \in {"cards", "layout", "render", "done"}

\* a date the calendar has
ValidDate(date) == date.m \in 1..12 /\ date.d \in 1..DaysInMonth(date.y, date.m)

\* C1: for startDate <= endDate, generateDateRange returns exactly
\* (days from startDate to endDate) + 1 dates, consecutive and strictly
\* increasing, the first startDate and the last endDate; for startDate =
\* endDate it returns that one date.
C1_DateRange ==
    (DatesComputed /\ trip.startDate <= trip.endDate) =>
        /\ Len(dates) = ValueOf(ParseDate(trip.endDate)) - ValueOf(ParseDate(trip.startDate)) + 1
        /\ DateStr(dates[1]) = trip.startDate
        /\ DateStr(dates[Len(dates)]) = trip.endDate
        /\ \A k \in 1..Len(dates) : ValidDate(dates[k])
        /\ \A k \in 1..(Len(dates) - 1) : ValueOf(dates[k + 1]) = ValueOf(dates[k]) + 1
        /\ (trip.startDate = trip.endDate => dates = <<ParseDate(trip.startDate)>>)

\* a range that runs from 28 February of a leap year into March has been expanded
C1_Witness ==
    /\ DatesComputed
    /\ trip.startDate = 20240228
    /\ trip.endDate = 20240301
    /\ Len(dates) = 3
    /\ DateStr(dates[2]) = 20240229

----------------------------------------------------------------------------
(* Properties of the day cards *)

\* the day cards have been built from the dates
CardsBuilt == pc \in {"layout", "render", "done"}

\* the date lies within [startDate, endDate]
InRange(date) == trip.startDate <= date /\ date <= trip.endDate

\* the display category of a collection
TypeOf(coll) ==
    IF coll = "arrivals" THEN "arrival"
    ELSE IF coll = "activities" THEN "activity" ELSE "departure"

\* the events of a collection of the trip
EventsOf(coll) ==
    IF coll = "arrivals" THEN trip.arrivals
    ELSE IF coll = "activities" THEN trip.activities ELSE trip.departures

\* the time and the name an event of the collection is displayed with
ShownTime(coll, e) ==
    IF coll = "activities"
    THEN (IF e.endTime = "" THEN <<e.startTime>> ELSE <<e.startTime, " - ", e.endTime>>)
    ELSE <<e.time>>

\* the positions of the card's events of the category
PositionsOfType(card, type) == {q \in 1..Len(card.events) : card.events[q].type = type}

\* the positions in the collection of the events dated dateStr
IndicesOn(coll, dateStr) == {j \in 1..Len(EventsOf(coll)) : EventsOf(coll)[j].date = dateStr}

\* the cards whose dateStr is the date
CardsOn(date) == {k \in 1..Len(dayCards) : dayCards[k].dateStr = date}

\* C3: every event of arrivals, activities and departures is in the events of
\* exactly one day card, the one of its date and under the category of its
\* collection, when its date lies within [startDate, endDate], and in the
\* events of no day card when it lies outside.
C3_EventsBucketed ==
    CardsBuilt =>
        /\ \A coll \in Collections : \A j \in 1..Len(EventsOf(coll)) :
             LET e == EventsOf(coll)[j] IN
             /\ Cardinality(CardsOn(e.date)) = (IF InRange(e.date) THEN 1 ELSE 0)
             /\ \A k \in CardsOn(e.date) :
                  \E q \in PositionsOfType(dayCards[k], TypeOf(coll)) :
                      /\ dayCards[k].events[q].time = ShownTime(coll, e)
                      /\ dayCards[k].events[q].description[1] = e.name
        \* a card holds as many events of a category as the collection has on its date
        /\ \A k \in 1..Len(dayCards) : \A coll \in Collections :
             Cardinality(PositionsOfType(dayCards[k], TypeOf(coll)))
                 = Cardinality(IndicesOn(coll, dayCards[k].dateStr))

\* the cards of a trip with two events on its first day and one outside the
\* range have been built
C3_Witness ==
    /\ CardsBuilt
    /\ Len(dayCards) = 3
    /\ Len(dayCards[1].events) = 2
    /\ Len(dayCards[2].events) = 0
    /\ Len(dayCards[3].events) = 0
    /\ Len(trip.arrivals) + Len(trip.activities) + Len(trip.departures) = 3
    /\ \E coll \in Collections : \E j \in 1..Len(EventsOf(coll)) :
          ~InRange(EventsOf(coll)[j].date)

\* the rank of a category in a card
TypeRank(type) == IF type = "arrival" THEN 1 ELSE IF type = "activity" THEN 2 ELSE 3

\* how many events of the card come before the events of the collection
GroupOffset(coll, dateStr) ==
    IF coll = "arrivals" THEN 0
    ELSE IF coll = "activities" THEN Cardinality(IndicesOn("arrivals", dateStr))
    ELSE Cardinality(IndicesOn("arrivals", dateStr))
         + Cardinality(IndicesOn("activities", dateStr))

\* C4: in every day card the arrivals come first, then the activities, then
\* the departures, each group in the order of the trip's collection; the
\* times play no part in the order.
C4_GroupOrder ==
    CardsBuilt =>
        \A k \in 1..Len(dayCards) :
            LET card == dayCards[k] IN
            /\ \A p \in 1..Len(card.events), q \in 1..Len(card.events) :
                 p < q => TypeRank(card.events[p].type) <= TypeRank(card.events[q].type)
            /\ \A coll \in Collections : \A j \in IndicesOn(coll, card.dateStr) :
                 LET q == GroupOffset(coll, card.dateStr)
                          + Cardinality({j2 \in IndicesOn(coll, card.dateStr) : j2 <= j})
                     e == EventsOf(coll)[j]
                 IN /\ q <= Len(card.events)
                    /\ card.events[q].type = TypeOf(coll)
                    /\ card.events[q].time = ShownTime(coll, e)
                    /\ card.events[q].description[1] = e.name

\* a card holds an arrival at 18:30, then one at 09:00, then an activity at 08:00
C4_Witness ==
    /\ CardsBuilt
    /\ \E k \in 1..Len(dayCards) :
          /\ Len(dayCards[k].events) = 3
          /\ dayCards[k].events[1] = ArrivalEvent([date |-> 20240714, time |-> "18:30", name |-> "Ann"])
          /\ dayCards[k].events[2] = ArrivalEvent([date |-> 20240714, time |-> "09:00", name |-> "Ann"])
          /\ dayCards[k].events[3].type = "activity"
          /\ dayCards[k].events[3].time[1] = "08:00"

\* C5: an export of a trip whose arrivals, activities or departures is
\* undefined never fails; the day cards are built with the events of the
\* collections that are there.
C5_AbsentIsEmpty ==
    trip.absent # {} => pc # "threw"

----------------------------------------------------------------------------
(* Properties of the pagination of the jsPDF exporter *)

\* the pages of the day cards: those after the title page
CardPages == Tail(pdf)

\* the layout loop has ended
LaidOut == variant = "jspdf" /\ pc = "done"

\* the estimated height of a drawn card
EstimatedHeight(item) == itemBaseHeight + Len(item.events) * itemHeightPerEvent

RECURSIVE SumEstimated(_)
SumEstimated(page) ==
    IF page = <<>> THEN 0 ELSE EstimatedHeight(Head(page)) + SumEstimated(Tail(page))

RECURSIVE Flatten(_)
Flatten(pages) == IF pages = <<>> THEN <<>> ELSE Head(pages) \o Flatten(Tail(pages))

Ceil(n, k) == (n + k - 1) \div k

\* C6: pages are cut by the height budget: a new page is started before a
\* card exactly when the estimated height accumulated on the page plus the
\* card's would exceed the budget or the page holds maxItemsPerPage cards,
\* so no page with more than one card is above the budget.
C6_HeightBudget ==
    (LaidOut /\ dayCards # <<>>) =>
        /\ \A p \in 1..Len(CardPages) :
             /\ CardPages[p] # <<>>
             /\ Len(CardPages[p]) <= maxItemsPerPage
             /\ Len(CardPages[p]) > 1 => SumEstimated(CardPages[p]) <= pageHeightBudget
        /\ \A p \in 2..Len(CardPages) :
             \/ Len(CardPages[p - 1]) = maxItemsPerPage
             \/ SumEstimated(CardPages[p - 1]) + EstimatedHeight(CardPages[p][1])
                    > pageHeightBudget

\* C7 as stated: pages are cut strictly by count, whatever the heights: n
\* cards take ceil(n / k) pages and every page but the last holds k cards.
C7_FixedCount ==
    (LaidOut /\ dayCards # <<>>) =>
        /\ Len(CardPages) = Ceil(Len(dayCards), maxItemsPerPage)
        /\ \A p \in 1..(Len(CardPages) - 1) : Len(CardPages[p]) = maxItemsPerPage

\* C7 as amended: a page is cut before every card whose index is a multiple
\* of 3 and also where the height test fires: no page holds more than 3
\* cards, n cards take ceil(n / 3) pages and one more for each cut made by
\* the height test alone, and without such a cut every page but the last
\* holds 3 cards.
C7_CountAndHeight ==
    (LaidOut /\ dayCards # <<>>) =>
        /\ Len(CardPages) = Ceil(Len(dayCards), maxItemsPerPage) + heightBreaks
        /\ \A p \in 1..Len(CardPages) : Len(CardPages[p]) \in 1..maxItemsPerPage
        /\ heightBreaks = 0 =>
             \A p \in 1..(Len(CardPages) - 1) : Len(CardPages[p]) = maxItemsPerPage

\* four light cards have been laid out on two pages, three and one
C7_Witness ==
    /\ LaidOut
    /\ Len(dayCards) = 4
    /\ heightBreaks = 0
    /\ Len(CardPages) = 2
    /\ Len(CardPages[1]) = 3
    /\ Len(CardPages[2]) = 1

\* what identifies a card: its date and its events
CardKey(c) == [dateStr |-> c.dateStr, events |-> c.events]

\* C8: every day card is drawn whole on exactly one page, none left out or
\* repeated, and the pages read in order give the day cards in their order.
C8_WholeCardsInOrder ==
    (variant = "jspdf" /\ pc \in {"layout", "done"}) =>
        LET flat == Flatten(CardPages) IN
        /\ Len(flat) = i
        /\ \A k \in 1..Len(flat) : CardKey(flat[k]) = CardKey(dayCards[k])
        /\ pc = "done" => Len(flat) = Len(dayCards)

\* three cards have been laid out on two pages, the second page holding two
\* cards of which the last runs past the page's end
C8_Witness ==
    /\ LaidOut
    /\ Len(dayCards) = 3
    /\ Len(CardPages) = 2
    /\ Len(CardPages[2]) = 2
    /\ CardPages[2][2].y + CardPages[2][2].h > pageHeight

\* C9 as stated: a day card without events takes the height itemBaseHeight
\* and nothing more.
C9_EmptyCardBaseline ==
    \A p \in 1..Len(pdf) : \A q \in 1..Len(pdf[p]) :
        pdf[p][q].events = <<>> => pdf[p][q].h = itemBaseHeight

\* C9 as amended: a day card without events takes itemBaseHeight plus the
\* 10 of the "No events" line, and one slot of its page: the next card of the
\* page starts that height and the spacing below it; a card with events takes
\* itemBaseHeight + events.length * itemHeightPerEvent.
C9_EmptyCardHeight ==
    \A p \in 1..Len(pdf) : \A q \in 1..Len(pdf[p]) :
        LET item == pdf[p][q] IN
        /\ item.events = <<>> => item.h = itemBaseHeight + noEventsHeight
        /\ item.events # <<>> => item.h = EstimatedHeight(item)
        /\ item.y = IF q = 1 THEN margin
                    ELSE pdf[p][q - 1].y + pdf[p][q - 1].h + cardSpacing
        /\ q <= maxItemsPerPage

\* a card without events has been drawn and the next card placed below it
C9_Witness ==
    /\ LaidOut
    /\ \E p \in 1..Len(pdf) :
          /\ Len(pdf[p]) >= 2
          /\ pdf[p][1].events = <<>>
          /\ pdf[p][2].y = margin + itemBaseHeight + noEventsHeight + cardSpacing

----------------------------------------------------------------------------
(* Properties of the persistence endpoint *)

\* the handler has answered request r
Responded(r) == req[r].pc = "responded"

\* C10: a POST whose body is missing, is not JSON or has no data field is
\* answered 400, and no read or write call to GitHub is made for it.
C10_BadBodyIs400 ==
    \A r \in 1..Len(req) :
        (/\ Responded(r)
         /\ req[r].method = "POST"
         /\ req[r].body.kind \in {"missing", "invalid", "null", "nodata"}) =>
            /\ req[r].response.statusCode = 400
            /\ req[r].reads = 0
            /\ req[r].writes = 0

\* a POST that carries a trip collection
ValidPost(r) == req[r].method = "POST" /\ req[r].body.kind = "data"

\* C11: a POST with valid data is answered 502 when the read of data.json
\* fails or the read succeeds and the write fails, and 200 only when both
\* the read and the write succeeded.
C11_UpstreamFailureIs502 ==
    \A r \in 1..Len(req) :
        (Responded(r) /\ ValidPost(r)) =>
            /\ (req[r].readResult = "failed" \/ req[r].writeResult = "failed")
                   => req[r].response.statusCode = 502
            /\ req[r].response.statusCode = 200
                   => (req[r].readResult = "ok" /\ req[r].writeResult = "ok")

\* C12: the handler makes at most one read and at most one write for a
\* request, the write only after its read succeeded and with the sha that
\* read returned, and after a rejected write it neither reads nor writes again.
C12_ReadThenWriteOnce ==
    \A r \in 1..Len(req) :
        /\ req[r].reads <= 1
        /\ req[r].writes <= 1
        /\ req[r].writes = 1 =>
             (req[r].reads = 1 /\ req[r].readResult = "ok" /\ req[r].writeSha = req[r].sha
              /\ req[r].sha # 0)
        /\ req[r].writeResult = "failed" => (Responded(r) /\ req[r].response.statusCode # 200)
        /\ req[r].pc = "reading" => (req[r].writes = 0 /\ req[r].reads = 1)
        /\ req[r].pc = "received" => (req[r].writes = 0 /\ req[r].reads = 0)

\* a write with a stale sha has been rejected and the request answered after
\* one read and one write
C12_Witness ==
    \E r \in 1..Len(req) :
        /\ Responded(r)
        /\ req[r].writeResult = "failed"
        /\ req[r].writeSha # github.sha
        /\ req[r].reads = 1
        /\ req[r].writes = 1

\* C14: an OPTIONS request is answered 204 and a request that is neither
\* POST nor OPTIONS 405, both with the CORS headers, whatever the body and
\* whether or not the credential is set, and without a call to GitHub.
C14_PreflightAndMethod ==
    \A r \in 1..Len(req) :
        req[r].method # "POST" =>
            /\ req[r].reads = 0
            /\ req[r].writes = 0
            /\ req[r].pc \in {"received", "responded"}
            /\ Responded(r) =>
                 /\ req[r].response.cors
                 /\ req[r].response.statusCode = (IF req[r].method = "OPTIONS" THEN 204 ELSE 405)

\* without a credential, an OPTIONS request with a body that is not JSON
\* and a GET request have been answered
C14_Witness ==
    /\ ~env.token
    /\ \E r \in 1..Len(req) :
          Responded(r) /\ req[r].method = "OPTIONS" /\ req[r].body.kind = "invalid"
    /\ \E r \in 1..Len(req) : Responded(r) /\ req[r].method = "GET"

\* C17: of two POSTs with valid data that read the same sha before either
\* wrote, at most one is answered 200 and then the other is answered 502,
\* and data.json holds the data of the one answered 200.
C17_ConcurrentWriters ==
    \A r1 \in 1..Len(req), r2 \in 1..Len(req) :
        (/\ r1 # r2
         /\ ValidPost(r1) /\ ValidPost(r2)
         /\ Responded(r1) /\ Responded(r2)
         /\ req[r1].writeSha # 0
         /\ req[r1].writeSha = req[r2].writeSha) =>
            /\ ~(req[r1].response.statusCode = 200 /\ req[r2].response.statusCode = 200)
            /\ req[r1].response.statusCode = 200 =>
                 /\ req[r2].response.statusCode = 502
                 /\ github.sha = req[r1].writeSha + 1 => github.content = req[r1].body.data

----------------------------------------------------------------------------
(* Properties of the display events *)

\* the display event the claim gives for an event of the collection
Displayed(coll, e) ==
    IF coll = "arrivals"
    THEN [type |-> "arrival", time |-> <<e.time>>, description |-> <<e.name, " arrives">>]
    ELSE IF coll = "departures"
    THEN [type |-> "departure", time |-> <<e.time>>, description |-> <<e.name, " departs">>]
    ELSE [type |-> "activity",
          time |-> IF e.endTime = "" THEN <<e.startTime>>
                   ELSE <<e.startTime, " - ", e.endTime>>,
          description |-> <<e.name>>]

\* C15: a matching arrival is shown with type 'arrival', "{name} arrives"
\* and its time, a matching departure with type 'departure', "{name} departs"
\* and its time, a matching activity with type 'activity', its name
\* unchanged, and startTime alone without an endTime, else
\* "{startTime} - {endTime}".
C15_DisplayEvents ==
    CardsBuilt =>
        \A k \in 1..Len(dayCards) :
            /\ \A coll \in Collections : \A j \in IndicesOn(coll, dayCards[k].dateStr) :
                 \E q \in 1..Len(dayCards[k].events) :
                     dayCards[k].events[q] = Displayed(coll, EventsOf(coll)[j])
            /\ \A q \in 1..Len(dayCards[k].events) :
                 \E coll \in Collections : \E j \in IndicesOn(coll, dayCards[k].dateStr) :
                     dayCards[k].events[q] = Displayed(coll, EventsOf(coll)[j])

\* a card shows an activity without an endTime, one with an endTime and a departure
C15_Witness ==
    /\ CardsBuilt
    /\ \E k \in 1..Len(dayCards) :
          /\ Len(dayCards[k].events) = 3
          /\ dayCards[k].events[1].type = "activity"
          /\ dayCards[k].events[1].time = <<"10:00">>
          /\ dayCards[k].events[2].time = <<"08:00", " - ", "11:00">>
          /\ dayCards[k].events[2].description = <<"Hike">>
          /\ dayCards[k].events[3].description = <<"Bob", " departs">>

----------------------------------------------------------------------------
(* Properties of exportTripToPDF *)

\* the loader of call c has finished
Stopped(c) == calls[c].loadResult # "none"

\* the call passed showLoadingState(true) and has not reached its finally block
InProgress(c) == calls[c].pc \in {"waiting", "loading", "settling", "generating"}

\* waitForLibraries never waits more than maxAttempts times; it returns
\* normally exactly when both libraries were defined as polling stopped and
\* throws 'Required libraries failed to load' otherwise
C19_Bounded ==
    variant = "jspdf" =>
        \A c \in 1..Len(calls) :
            /\ calls[c].attempts <= maxAttempts
            /\ Stopped(c) =>
                 /\ calls[c].loadResult = "ok" <=> calls[c].availAtStop
                 /\ calls[c].loadResult = "threw" <=> ~calls[c].availAtStop
                 /\ calls[c].loadResult = "threw" =>
                      /\ calls[c].error = LibrariesFailed
                      /\ calls[c].attempts = maxAttempts

\* call c begins a 100 ms wait in this step
WaitStarts(c) ==
    /\ c <= Len(calls')
    /\ calls'[c].pc = "waiting"
    /\ c > Len(calls) \/ calls'[c].attempts # calls[c].attempts

\* no wait begins while both libraries are defined
C19_NoWaitOnceReady ==
    [][variant = "jspdf" => \A c \in 1..MaxCalls : WaitStarts(c) => ~LibrariesReady(window')]_vars

\* a waiting call stops polling
C19_Terminates ==
    \A c \in 1..MaxCalls :
        (c <= Len(calls) /\ calls[c].pc = "waiting") ~> (c <= Len(calls) /\ Stopped(c))

\* C19: waitForLibraries always terminates after at most 100 polling waits;
\* it returns normally if and only if both jsPDF and html2canvas are available
\* when polling stops, and otherwise throws the 'Required libraries failed to
\* load' error; it never waits again once both libraries are available.
C19_WaitForLibraries ==
    /\ []C19_Bounded
    /\ C19_NoWaitOnceReady
    /\ C19_Terminates

\* one call gave up after 100 waits, a later one returned after waiting
C19_Witness ==
    /\ variant = "jspdf"
    /\ \E c \in 1..Len(calls), d \in 1..Len(calls) :
          /\ calls[c].loadResult = "threw"
          /\ calls[c].attempts = maxAttempts
          /\ calls[d].loadResult = "ok"
          /\ calls[d].attempts > 0

\* C16: every failure during exportTripToPDF (library loading fails or times
\* out, or PDF generation throws) is surfaced as an alert: no call with a
\* non-null trip ends in failure without an alert having been shown, and the
\* error does not escape the call.
C16_FailuresAlerted ==
    \A c \in 1..Len(calls) :
        /\ ~calls[c].escaped
        /\ (calls[c].trip # "null" /\ calls[c].loadResult = "threw") =>
              /\ calls[c].pc = "returned"
              /\ calls[c].alerts = <<AlertText(variant, calls[c].error)>>
        /\ (calls[c].pc = "returned" /\ calls[c].error # "") =>
              calls[c].alerts = <<AlertText(variant, calls[c].error)>>

\* an export whose library could not be loaded and one whose generatePDF threw
C16_Witness ==
    \E c \in 1..Len(calls), d \in 1..Len(calls) :
        /\ calls[c].pc = "returned"
        /\ calls[c].loadResult = "threw"
        /\ calls[d].pc = "returned"
        /\ calls[d].error = GenerateFailed

\* C13: ensureHtml2PdfLoaded attempts the CDN sources strictly in list order,
\* one at a time; it returns at the first source after which the library
\* is available and attempts no later source; it fails only after every
\* source has been attempted without making the library available.
C13_OrderedFallback ==
    variant = "html2pdf" =>
        \A c \in 1..Len(calls) :
            /\ calls[c].tried = [k \in 1..Len(calls[c].tried) |-> k]
            /\ Len(calls[c].tried) <= Len(cdnSources)
            /\ \A k \in 1..Len(calls[c].tried) : ~calls[c].availAtStart[k]
            /\ calls[c].loadResult = "ok" => calls[c].availAtStop
            /\ calls[c].loadResult = "threw" =>
                 /\ Len(calls[c].tried) = Len(cdnSources)
                 /\ ~calls[c].availAtStop

\* C18: across any interleaving of exportTripToPDF calls at most one element
\* with id pdfLoadingOverlay exists, the overlay is present whenever at least
\* one export is between its showLoadingState(true) and its finally block,
\* and the overlay is absent once every started export has completed.
C18_OverlayTracksExports ==
    /\ overlay <= 1
    /\ (\E c \in 1..Len(calls) : InProgress(c)) => overlay = 1
    /\ (\A c \in 1..Len(calls) : calls[c].pc = "returned") => overlay = 0

====
